---- MODULE Spec2Model ----
(***************************************************************************)
(* Model of examples/full/full.ino: a Modbus slave sketch that maps coils, *)
(* discrete inputs, input registers and holding registers onto the digital *)
(* pins, the analog pins and the EEPROM of an Arduino.                     *)
(*                                                                         *)
(* The sketch is written for the AVR boards (EEPROM.h, digital pins 0..13, *)
(* control pin 8): int and unsigned int are 16 bits wide there, so every   *)
(* expression over uint16_t operands (address + i, registerIndex * 2) is   *)
(* computed modulo 2^16.  The EEPROM is modelled byte by byte, over the    *)
(* byte offsets the modelled requests can produce; its capacity is not     *)
(* fixed by the sketch.                                                    *)
(***************************************************************************)
EXTENDS Integers, Sequences, FiniteSets, TLC

\* ------------------------------------------------------------ constants

CTRL_PIN == 8
PIN_MODE_INPUT == 0
PIN_MODE_OUTPUT == 1

\* Function codes, as the handlers' comments give them.
FC_READ_COILS == 1
FC_READ_DISCRETE_INPUT == 2
FC_READ_HOLDING_REGISTERS == 3
FC_READ_INPUT_REGISTERS == 4
FC_WRITE_COIL == 5
FC_WRITE_MULTIPLE_REGISTERS == 16

\* uint16_t arithmetic: 2^16.
W16 == 65536
\* uint8_t parameters of digitalRead / digitalWrite: 2^8.
W8 == 256

\* The digital pins of the board ("holding registers 0 .. 13").
Pins == 0 .. 13

\* ------------------------------------------------------------ bounds

\* Longest request of the general specification.
MaxLen == 2
\* Longest request of the wrap-around specification (65535 + 4 = index 3).
WrapLen == 5

\* Values a request carries: INPUT, OUTPUT, and a word that is no mode.
Vals == {0, 1, 65535}
\* Analog samples, the analog pins, and the one whose signal changes.
Samples == {0, 1023}
AnalogPins == {0, 1}
SampledPins == {1}
\* Coil status words of Write Single Coil.
Statuses == {0, 1}

\* Starting addresses of Spec: the control pin's neighbourhood, and the same
\* registers plus 2^15.
RegAddrs == {7, 32775}
\* Starting addresses of the coil and discrete input reads, and the coil
\* Write Single Coil drives.
CoilAddrs == {3, 4}
CoilWriteAddrs == {4}
\* The digital pin a switch drives.
SwitchPins == {3}
\* Starting addresses of SpecPins: the two ends of the pin range.
PinAddrs == {2, 13}
\* Starting address of SpecWrap: the last register index.
WrapAddrs == {65535}

\* All value sequences of a length.
ValueSeqs(len) == [1 .. len -> Vals]

\* The value sequences of SpecWrap: the rotations of <<0, 1, 65535>> and the
\* constant sequences.
WrapSeqs(len) ==
    LET base == <<0, 1, 65535>>
    IN  {[i \in 1 .. len |-> base[((k + i) % 3) + 1]] : k \in 0 .. 2}
        \cup {[i \in 1 .. len |-> v] : v \in Vals}

\* The registers a modelled request can touch, and their bytes in the EEPROM.
Registers ==
    (0 .. 15)
    \cup {(a + i) % W16 : a \in RegAddrs \cup PinAddrs, i \in 0 .. MaxLen}
    \cup {(a + i) % W16 : a \in WrapAddrs, i \in 0 .. WrapLen}
Cells == UNION {{(r * 2) % W16, ((r * 2) % W16) + 1} : r \in Registers}

\* ------------------------------------------------------------ state

VARIABLES
    pc,       \* "boot": setup() not yet run; "idle": poll() waits for a
              \* request; "reply": the handler has returned, the response
              \* is not yet sent
    mode,     \* hardware mode of each digital pin
    level,    \* level of each digital pin
    analog,   \* sample at each analog pin
    eeprom,   \* EEPROM, byte offset -> byte
    req,      \* the request being served: fc, address, length, values
    resp,     \* the response buffer writes of the request, in call order
    setBy     \* history: the mode the last write to register p asked for

vars == <<pc, mode, level, analog, eeprom, req, resp, setBy>>

NoReq == [fc |-> 0, address |-> 0, length |-> 0, values |-> <<>>]

\* ------------------------------------------------------------ adapters

\* EEPROM.get(idx, value) for a uint16_t: two bytes, low byte first.
EEPROM_get(e, idx) == e[idx] + 256 * e[idx + 1]

\* EEPROM.put(idx, value) for a uint16_t.
EEPROM_put(e, idx, value) ==
    [e EXCEPT ![idx] = value % 256, ![idx + 1] = value \div 256]

\* pinMode(pin, mode): the pin parameter is a uint8_t.
pinMode(m, pin, md) ==
    IF pin % W8 \in DOMAIN m THEN [m EXCEPT ![pin % W8] = md] ELSE m

\* digitalRead(pin): the pin parameter is a uint8_t.
digitalRead(lv, pin) == IF pin % W8 \in DOMAIN lv THEN lv[pin % W8] ELSE 0

\* digitalWrite(pin, val): both parameters are uint8_t; LOW is 0.
digitalWrite(lv, pin, val) ==
    IF pin % W8 \in DOMAIN lv
    THEN [lv EXCEPT ![pin % W8] = IF val % W8 = 0 THEN 0 ELSE 1]
    ELSE lv

\* analogRead(pin)
analogRead(an, pin) == IF pin % W8 \in DOMAIN an THEN an[pin % W8] ELSE 0

\* ------------------------------------------------------------ setup()

\* The switch of setup(): the stored word selects the mode, or nothing.
SetupPinMode(m, pinIndex, eepromValue) ==
    CASE eepromValue = PIN_MODE_INPUT -> pinMode(m, pinIndex, "INPUT")
      [] eepromValue = PIN_MODE_OUTPUT -> pinMode(m, pinIndex, "OUTPUT")
      [] OTHER -> m

\* for (pinIndex = 3; pinIndex < 14; pinIndex++)
RECURSIVE SetupLoop(_, _, _)
SetupLoop(pinIndex, e, m) ==
    IF pinIndex < 14
    THEN SetupLoop(pinIndex + 1, e,
                   SetupPinMode(m, pinIndex, EEPROM_get(e, (pinIndex * 2) % W16)))
    ELSE m

\* Mutant of SetupModes: the scan alone, the control pin not forced.
M_SetupModes_ScanOnly(e, m) == SetupLoop(3, e, m)

\* The pin modes setup() leaves: the scan, then the control pin as an output.
SetupModes(e, m) == pinMode(SetupLoop(3, e, m), CTRL_PIN, "OUTPUT")

\* ------------------------------------------------------------ handlers

\* One response buffer write: the slot, the index read, the value written.
Entry(slot, index, value) == [slot |-> slot, index |-> index, value |-> value]

\* readCoils(address, length)
RECURSIVE readCoils(_, _, _, _)
readCoils(i, address, length, lv) ==
    IF i < length
    THEN <<Entry(i, (address + i) % W16, digitalRead(lv, (address + i) % W16))>>
         \o readCoils(i + 1, address, length, lv)
    ELSE <<>>

\* Mutant of readDiscrete: discrete input i read from the pin after coil i.
RECURSIVE M_readDiscrete_NextPin(_, _, _, _)
M_readDiscrete_NextPin(i, address, length, lv) ==
    IF i < length
    THEN <<Entry(i, (address + i) % W16, digitalRead(lv, (address + i + 1) % W16))>>
         \o M_readDiscrete_NextPin(i + 1, address, length, lv)
    ELSE <<>>

\* The loop of readDigitalIn(fc, address, length) for discrete inputs.
RECURSIVE readDiscrete(_, _, _, _)
readDiscrete(i, address, length, lv) ==
    IF i < length
    THEN <<Entry(i, (address + i) % W16, digitalRead(lv, (address + i) % W16))>>
         \o readDiscrete(i + 1, address, length, lv)
    ELSE <<>>

\* readDigitalIn(fc, address, length)
readDigitalIn(fc, address, length, lv) ==
    IF fc = FC_READ_COILS
    THEN readCoils(0, address, length, lv)
    ELSE readDiscrete(0, address, length, lv)

\* Mutant of readAnalogIn: the response slot taken from the pin number.
RECURSIVE M_readAnalogIn_SlotByAddress(_, _, _, _)
M_readAnalogIn_SlotByAddress(i, address, length, an) ==
    IF i < length
    THEN <<Entry((address + i) % W16, (address + i) % W16,
                 analogRead(an, (address + i) % W16))>>
         \o M_readAnalogIn_SlotByAddress(i + 1, address, length, an)
    ELSE <<>>

\* readAnalogIn(address, length)
RECURSIVE readAnalogIn(_, _, _, _)
readAnalogIn(i, address, length, an) ==
    IF i < length
    THEN <<Entry(i, (address + i) % W16, analogRead(an, (address + i) % W16))>>
         \o readAnalogIn(i + 1, address, length, an)
    ELSE <<>>

\* The loop of readMemory(fc, address, length) for holding registers.
RECURSIVE readEeprom(_, _, _, _)
readEeprom(i, address, length, e) ==
    IF i < length
    THEN <<Entry(i, (address + i) % W16,
                 EEPROM_get(e, (((address + i) % W16) * 2) % W16))>>
         \o readEeprom(i + 1, address, length, e)
    ELSE <<>>

\* readMemory(fc, address, length)
readMemory(fc, address, length, e, an) ==
    IF fc = FC_READ_INPUT_REGISTERS
    THEN readAnalogIn(0, address, length, an)
    ELSE readEeprom(0, address, length, e)

\* writeDigitlOut(fc, address, status)
writeDigitlOut(address, status, lv) == digitalWrite(lv, address, status)

\* Mutant of RegisterIndex: the index kept wider than 16 bits.
M_RegisterIndex_NoWrap(address, i) == address + i

\* registerIndex = address + i, a uint16_t.
RegisterIndex(address, i) == (address + i) % W16

\* Mutant of StoreOffset: the register index used as the byte offset.
M_StoreOffset_NoScale(registerIndex) == registerIndex % W16

\* The byte offset handed to EEPROM.put: registerIndex * 2, an unsigned int.
StoreOffset(registerIndex) == (registerIndex * 2) % W16

\* Mutant of SetsPinMode: the control pin not excluded.
M_SetsPinMode_NoCtrl(registerIndex) == registerIndex > 2 /\ registerIndex < 14

\* Mutant of SetsPinMode: the range of the pin registers not tested.
M_SetsPinMode_NoRange(registerIndex) == registerIndex # CTRL_PIN

\* "if this register sets digital pins mode"
SetsPinMode(registerIndex) ==
    registerIndex > 2 /\ registerIndex < 14 /\ registerIndex # CTRL_PIN

\* Mutant of WritePinMode: a default case that makes the pin an input.
M_WritePinMode_Default(m, registerIndex, value) ==
    CASE value = PIN_MODE_OUTPUT -> pinMode(m, registerIndex, "OUTPUT")
      [] OTHER -> pinMode(m, registerIndex, "INPUT")

\* The switch of writeMemory().
WritePinMode(m, registerIndex, value) ==
    CASE value = PIN_MODE_INPUT -> pinMode(m, registerIndex, "INPUT")
      [] value = PIN_MODE_OUTPUT -> pinMode(m, registerIndex, "OUTPUT")
      [] OTHER -> m

\* slave.readRegisterFromBuffer(i)
readRegisterFromBuffer(values, i) == values[i + 1]

\* writeMemory(fc, address, length): the EEPROM and the pin modes it leaves.
RECURSIVE writeMemory(_, _, _, _, _, _)
writeMemory(i, address, length, values, e, m) ==
    IF i < length
    THEN LET registerIndex == RegisterIndex(address, i)
             value == readRegisterFromBuffer(values, i)
             e1 == EEPROM_put(e, StoreOffset(registerIndex), value)
             m1 == IF SetsPinMode(registerIndex)
                   THEN WritePinMode(m, registerIndex, value)
                   ELSE m
         IN  writeMemory(i + 1, address, length, values, e1, m1)
    ELSE [eeprom |-> e, mode |-> m]

\* History of the writes: for each register of a non-control pin the request
\* writes, the mode its value asks for ("NONE" for a value that is no mode).
RECURSIVE Asked(_, _, _, _)
Asked(i, address, values, sb) ==
    IF i < Len(values)
    THEN LET r == (address + i) % W16
             v == values[i + 1]
             a == CASE v = PIN_MODE_INPUT -> "INPUT"
                    [] v = PIN_MODE_OUTPUT -> "OUTPUT"
                    [] OTHER -> "NONE"
         IN  Asked(i + 1, address, values,
                   IF r \in 3 .. 13 /\ r # CTRL_PIN THEN [sb EXCEPT ![r] = a] ELSE sb)
    ELSE sb

\* ------------------------------------------------------------ actions

Init ==
    /\ pc = "boot"
    /\ mode = [p \in Pins |-> "INPUT"]
    /\ level = [p \in Pins |-> 0]
    /\ analog = [p \in AnalogPins |-> 0]
    /\ eeprom = [c \in Cells |-> 255]
    /\ req = NoReq
    /\ resp = <<>>
    /\ setBy = [p \in Pins |-> "NONE"]

\* Reset: every pin back to the hardware default, the EEPROM kept.
Reset ==
    /\ pc # "boot"
    /\ pc' = "boot"
    /\ mode' = [p \in Pins |-> "INPUT"]
    /\ level' = [p \in Pins |-> 0]
    /\ req' = NoReq
    /\ resp' = <<>>
    /\ UNCHANGED <<analog, eeprom, setBy>>

\* setup()
Setup ==
    /\ pc = "boot"
    /\ pc' = "idle"
    /\ mode' = SetupModes(eeprom, mode)
    /\ UNCHANGED <<level, analog, eeprom, req, resp, setBy>>

\* The signal at an analog pin changes.
AnalogChange ==
    /\ \E p \in SampledPins, s \in Samples :
          /\ analog[p] # s
          /\ analog' = [analog EXCEPT ![p] = s]
    /\ UNCHANGED <<pc, mode, level, eeprom, req, resp, setBy>>

\* The switch at a digital input pin changes.
DigitalChange ==
    /\ \E p \in SwitchPins :
          /\ mode[p] = "INPUT"
          /\ level' = [level EXCEPT ![p] = 1 - level[p]]
    /\ UNCHANGED <<pc, mode, analog, eeprom, req, resp, setBy>>

\* poll() serving Read Coils or Read Discrete Inputs through readDigitalIn.
ReadDigital(fc, address, length) ==
    /\ pc = "idle"
    /\ pc' = "reply"
    /\ req' = [fc |-> fc, address |-> address, length |-> length, values |-> <<>>]
    /\ resp' = readDigitalIn(fc, address, length, level)
    /\ UNCHANGED <<mode, level, analog, eeprom, setBy>>

\* poll() serving Read Holding Registers or Read Input Registers through readMemory.
ReadRegisters(fc, address, length) ==
    /\ pc = "idle"
    /\ pc' = "reply"
    /\ req' = [fc |-> fc, address |-> address, length |-> length, values |-> <<>>]
    /\ resp' = readMemory(fc, address, length, eeprom, analog)
    /\ UNCHANGED <<mode, level, analog, eeprom, setBy>>

\* poll() serving Write Single Coil through writeDigitlOut.
WriteCoil(address, status) ==
    /\ pc = "idle"
    /\ pc' = "reply"
    /\ req' = [fc |-> FC_WRITE_COIL, address |-> address, length |-> status,
               values |-> <<>>]
    /\ resp' = <<>>
    /\ level' = writeDigitlOut(address, status, level)
    /\ UNCHANGED <<mode, analog, eeprom, setBy>>

\* poll() serving Write Multiple Holding Registers through writeMemory.
WriteRegisters(address, values) ==
    /\ pc = "idle"
    /\ pc' = "reply"
    /\ req' = [fc |-> FC_WRITE_MULTIPLE_REGISTERS, address |-> address,
               length |-> Len(values), values |-> values]
    /\ resp' = <<>>
    /\ LET r == writeMemory(0, address, Len(values), values, eeprom, mode)
       IN  eeprom' = r.eeprom /\ mode' = r.mode
    /\ setBy' = Asked(0, address, values, setBy)
    /\ UNCHANGED <<level, analog>>

\* poll() sends the response and waits for the next request.
Respond ==
    /\ pc = "reply"
    /\ pc' = "idle"
    /\ req' = NoReq
    /\ resp' = <<>>
    /\ UNCHANGED <<mode, level, analog, eeprom, setBy>>

ReadCoilsReq ==
    \E a \in CoilAddrs, n \in 0 .. MaxLen : ReadDigital(FC_READ_COILS, a, n)

ReadDiscreteReq ==
    \E a \in CoilAddrs, n \in 0 .. MaxLen : ReadDigital(FC_READ_DISCRETE_INPUT, a, n)

ReadHoldingReq ==
    \E a \in RegAddrs, n \in 0 .. MaxLen : ReadRegisters(FC_READ_HOLDING_REGISTERS, a, n)

ReadInputReq ==
    \E a \in AnalogPins, n \in 0 .. MaxLen : ReadRegisters(FC_READ_INPUT_REGISTERS, a, n)

WriteCoilReq ==
    \E a \in CoilWriteAddrs, s \in Statuses : WriteCoil(a, s)

WriteRegistersReq ==
    \E a \in RegAddrs, n \in 0 .. MaxLen : \E vs \in ValueSeqs(n) : WriteRegisters(a, vs)

\* The device, with requests of every function class.
Next ==
    \/ Reset
    \/ Setup
    \/ AnalogChange
    \/ DigitalChange
    \/ ReadCoilsReq
    \/ ReadDiscreteReq
    \/ ReadHoldingReq
    \/ ReadInputReq
    \/ WriteCoilReq
    \/ WriteRegistersReq
    \/ Respond

Spec == Init /\ [][Next]_vars

PinReadReq ==
    \E a \in PinAddrs, n \in 0 .. MaxLen : ReadRegisters(FC_READ_HOLDING_REGISTERS, a, n)

PinWriteReq ==
    \E a \in PinAddrs, n \in 0 .. MaxLen : \E vs \in ValueSeqs(n) : WriteRegisters(a, vs)

\* The device, with holding register requests at the two ends of the pin range.
NextPins ==
    \/ Reset
    \/ Setup
    \/ PinReadReq
    \/ PinWriteReq
    \/ Respond

SpecPins == Init /\ [][NextPins]_vars

WrapReadReq ==
    \E a \in WrapAddrs, n \in 0 .. WrapLen : ReadRegisters(FC_READ_HOLDING_REGISTERS, a, n)

WrapWriteReq ==
    \E a \in WrapAddrs, n \in 0 .. WrapLen : \E vs \in WrapSeqs(n) : WriteRegisters(a, vs)

\* The device, with holding register requests that run past register 65535.
NextWrap ==
    \/ Reset
    \/ Setup
    \/ WrapReadReq
    \/ WrapWriteReq
    \/ Respond

SpecWrap == Init /\ [][NextWrap]_vars

\* ------------------------------------------------------------ properties

\* The pins whose mode a register controls: 3 .. 13 without the control pin.
ModePins == (3 .. 13) \ {CTRL_PIN}

\* The slots of a request and the register index of a slot.
Slots(r) == 0 .. (r.length - 1)
IndexOf(r, i) == (r.address + i) % W16

\* The stored word of register p, p small enough for p * 2 not to wrap.
Word(e, p) == EEPROM_get(e, p * 2)

\* The most words a store addressed by a 16-bit byte offset can hold.
StoreWords == W16 \div 2

\* A step in which a handler serves a request.
HandlerStep == pc = "idle" /\ pc' = "reply"
WriteStep == HandlerStep /\ req'.fc = FC_WRITE_MULTIPLE_REGISTERS

\* A state in which a handler has just served a request of function code fc.
Served(fc) == pc = "reply" /\ req.fc = fc

\* C1: a Write Multiple Holding Registers request whose written indices
\* include the control pin's index leaves the control pin's hardware mode as
\* it was, whatever the value written.
C1_ControlPinKept ==
    [][(WriteStep /\ \E i \in Slots(req') : IndexOf(req', i) = CTRL_PIN)
         => mode'[CTRL_PIN] = mode[CTRL_PIN]]_vars

\* C1 witness: INPUT (0) has been written to register 8 and pin 8 is still
\* an output.
C1_Witness ==
    /\ Served(FC_WRITE_MULTIPLE_REGISTERS)
    /\ \E i \in Slots(req) : IndexOf(req, i) = CTRL_PIN /\ req.values[i + 1] = 0
    /\ mode[CTRL_PIN] = "OUTPUT"

\* C2: a Write Multiple Holding Registers request that writes v to the
\* register of a pin p in 3 .. 13 other than the control pin leaves p an
\* INPUT for v = 0, an OUTPUT for v = 1, and in its previous mode otherwise.
C2_WriteSetsMode ==
    [][WriteStep =>
         \A p \in ModePins : \A i \in Slots(req') :
            IndexOf(req', i) = p =>
               LET v == req'.values[i + 1]
               IN  /\ v = 0 => mode'[p] = "INPUT"
                   /\ v = 1 => mode'[p] = "OUTPUT"
                   /\ v \notin {0, 1} => mode'[p] = mode[p]]_vars

\* C2 witness: a word that is no mode has been written to register 13 while
\* pin 13 was an OUTPUT, and pin 3 is an OUTPUT by an earlier write.
C2_Witness ==
    /\ Served(FC_WRITE_MULTIPLE_REGISTERS)
    /\ \E i \in Slots(req) : IndexOf(req, i) = 13 /\ req.values[i + 1] = 65535
    /\ mode[13] = "OUTPUT"
    /\ mode[3] = "OUTPUT" /\ Word(eeprom, 3) = 1

\* C3: after a Write Multiple Holding Registers request whose indices lie
\* within the store, Read Holding Registers with the same address and length
\* writes values[i] to response word i, for every slot i.
C3_RoundTrip ==
    (Served(FC_WRITE_MULTIPLE_REGISTERS) /\ req.address + req.length <= StoreWords)
       => LET r == readMemory(FC_READ_HOLDING_REGISTERS, req.address, req.length,
                              eeprom, analog)
          IN  /\ Len(r) = req.length
              /\ \A i \in Slots(req) :
                    /\ \E k \in 1 .. Len(r) : r[k].slot = i
                    /\ \A k \in 1 .. Len(r) :
                          r[k].slot = i => r[k].value = req.values[i + 1]

\* C3 witness: a request has written a word that is no mode to register 7 and
\* INPUT to the control pin's register.
C3_Witness ==
    /\ Served(FC_WRITE_MULTIPLE_REGISTERS)
    /\ req.address = 7 /\ req.values = <<65535, 0>>

\* The other function code of the two readDigitalIn serves.
OtherDigital(fc) ==
    IF fc = FC_READ_COILS THEN FC_READ_DISCRETE_INPUT ELSE FC_READ_COILS

\* C4: served with Read Coils or with Read Discrete Inputs, the handler
\* writes the bits the other function code would write for the same address
\* and length, into the same slots, and leaves the pins and the store alone.
C4_CoilsAsDiscrete ==
    [][(HandlerStep /\ req'.fc \in {FC_READ_COILS, FC_READ_DISCRETE_INPUT})
         => /\ resp' = readDigitalIn(OtherDigital(req'.fc), req'.address,
                                     req'.length, level)
            /\ UNCHANGED <<mode, level, analog, eeprom>>]_vars

\* C4 witness: Read Discrete Inputs over a high and a low pin.
C4_Witness ==
    /\ Served(FC_READ_DISCRETE_INPUT)
    /\ req.address = 3 /\ req.length = 2
    /\ resp[1].value = 1 /\ resp[2].value = 0

\* What a read of function code fc reads at an index, in the current state.
Source(fc, index) ==
    CASE fc \in {FC_READ_COILS, FC_READ_DISCRETE_INPUT} -> digitalRead(level, index)
      [] fc = FC_READ_INPUT_REGISTERS -> analogRead(analog, index)
      [] fc = FC_READ_HOLDING_REGISTERS -> EEPROM_get(eeprom, (index * 2) % W16)

ReadCodes ==
    {FC_READ_COILS, FC_READ_DISCRETE_INPUT, FC_READ_HOLDING_REGISTERS,
     FC_READ_INPUT_REGISTERS}

\* C5: a read of any class writes exactly the slots 0 .. length-1, once each
\* and in ascending order; slot i holds what the class reads at address + i;
\* with length 0 nothing is read and nothing is written.
C5_ReadLayout ==
    [][(HandlerStep /\ req'.fc \in ReadCodes)
         => /\ Len(resp') = req'.length
            /\ \A k \in 1 .. Len(resp') :
                  /\ resp'[k].slot = k - 1
                  /\ resp'[k].index = IndexOf(req', k - 1)
                  /\ resp'[k].value = Source(req'.fc, IndexOf(req', k - 1))]_vars

\* C5 witness: Read Input Registers from address 1, past the sampled pin.
C5_Witness ==
    /\ Served(FC_READ_INPUT_REGISTERS)
    /\ req.address = 1 /\ req.length = 2
    /\ resp[1].value = 1023 /\ resp[2].value = 0

\* C6: once setup has run, a pin's mode changes only in a Write Multiple
\* Holding Registers request that writes the pin's register, and only for a
\* pin of 3 .. 13 other than the control pin; the other function classes
\* leave the modes and the store alone, and so does every step that serves
\* no request.
C6_Frame ==
    [][/\ (HandlerStep /\ req'.fc # FC_WRITE_MULTIPLE_REGISTERS)
            => (mode' = mode /\ eeprom' = eeprom)
       /\ (pc # "boot" /\ pc' # "boot" /\ ~HandlerStep)
            => (mode' = mode /\ eeprom' = eeprom)
       /\ HandlerStep
            => \A p \in Pins :
                  mode'[p] # mode[p]
                     => /\ req'.fc = FC_WRITE_MULTIPLE_REGISTERS
                        /\ \E i \in Slots(req') : IndexOf(req', i) = p
                        /\ p \in ModePins
       /\ (WriteStep /\ \A i \in Slots(req') : IndexOf(req', i) \notin 3 .. 13)
            => mode' = mode]_vars

\* C6 witness: OUTPUT has been written to two registers outside 3 .. 13, and
\* the pin whose stored word the request changed is still an INPUT.
C6_Witness ==
    /\ Served(FC_WRITE_MULTIPLE_REGISTERS)
    /\ req.address = 32775 /\ req.values = <<1, 1>>
    /\ mode[7] = "INPUT"

\* C7: a mode written to the register of a pin survives a reset, as long as
\* no later request writes that register; and setup leaves the mode of a pin
\* whose stored word is no mode as it found it.
C7_ModePersists ==
    [][(pc = "boot" /\ pc' = "idle")
         => \A p \in ModePins :
               /\ setBy[p] # "NONE" => mode'[p] = setBy[p]
               /\ Word(eeprom, p) \notin {0, 1} => mode'[p] = mode[p]]_vars

\* C8: the register index of slot i is (address + i) mod 2^16: the value of
\* slot i is stored there and the pin mode rule is applied to that index, so
\* a request running past 65535 goes on at index 0.
C8_IndexWraps ==
    [][WriteStep =>
         \A i \in Slots(req') :
            LET w == (req'.address + i) % W16
                v == req'.values[i + 1]
            IN  /\ EEPROM_get(eeprom', (w * 2) % W16) = v
                /\ (w \in ModePins /\ v = 0) => mode'[w] = "INPUT"
                /\ (w \in ModePins /\ v = 1) => mode'[w] = "OUTPUT"
                /\ (w \in ModePins /\ v \notin {0, 1}) => mode'[w] = mode[w]
                /\ (w \in Pins \ ModePins) => mode'[w] = mode[w]]_vars

\* C8 witness: a request from 65535 has stored slot 3 at register 2 and made
\* pin 3 an OUTPUT by slot 4.
C8_Witness ==
    /\ Served(FC_WRITE_MULTIPLE_REGISTERS)
    /\ req.address = 65535 /\ req.length >= 5
    /\ req.values[4] = 0 /\ Word(eeprom, 2) = 0
    /\ req.values[5] = 1 /\ Word(eeprom, 3) = 1 /\ mode[3] = "OUTPUT"

\* C9: once setup has run, a pin of 3 .. 13 other than the control pin is an
\* INPUT if its stored word is 0 and an OUTPUT if its stored word is 1.
C9_StoreAgrees ==
    pc # "boot"
       => \A p \in ModePins :
             /\ Word(eeprom, p) = 0 => mode[p] = "INPUT"
             /\ Word(eeprom, p) = 1 => mode[p] = "OUTPUT"

\* C10: whenever requests can be served, the control pin is an OUTPUT.
C10_ControlPinOutput == pc # "boot" => mode[CTRL_PIN] = "OUTPUT"

\* C10 witness: setup has run with INPUT stored for the control pin. (Pin 7
\* is an INPUT against the last write to its register, which only a reset
\* and setup bring about.)
C10_Witness ==
    /\ pc = "idle"
    /\ Word(eeprom, CTRL_PIN) = 0
    /\ mode[CTRL_PIN] = "OUTPUT"
    /\ setBy[7] = "OUTPUT" /\ mode[7] = "INPUT"

====
